---- MODULE Spec2Model ----
(***************************************************************************)
(* A model of go-jeefo-mysql: the query builder of mysql.go, its calls on  *)
(* the database driver, and the scalar converters.                         *)
(*                                                                         *)
(* A Go string is a sequence of lexemes: an identifier or a scalar is a    *)
(* sequence of one-character strings, and the literals the builder writes  *)
(* (" WHERE ", " AND ", "?", ...) are one lexeme each.  A placeholder is   *)
(* the lexeme "?".  A Go interface{} value is a record [kind, val].        *)
(***************************************************************************)
EXTENDS Integers, Sequences, FiniteSets, TLC

VARIABLES
  task,      \* PureSpec: the function under test and its arguments
  out,       \* PureSpec: the results of its applications so far, in order
  options,   \* the caller's variadic options maps (Go maps: shared with callees)
  call,      \* the operation in progress or last finished, with its arguments
  sent,      \* the statements handed to the driver by the current call
  pc,        \* where the current call stands
  cursor,    \* the *sql.Rows of the current Select: "none", "open", "closed"
  deferred,  \* the deferred calls of the current Select frame
  rowsLeft,  \* rows the cursor has not yet delivered
  results,   \* the rows Select has collected
  outcome,   \* what the call returned or panicked with
  ncalls     \* calls made so far

vars == <<task, out, options, call, sent, pc, cursor, deferred, rowsLeft,
          results, outcome, ncalls>>

----------------------------------------------------------------------------
(* Bounds *)

MaxIdLen == 3
MaxSliceLen == 2
MaxTextLen == 2
MaxRows == 2
MaxCalls == 2
MaxApply == 2

----------------------------------------------------------------------------
(* strings *)

RECURSIVE Join(_, _)
Join(parts, sep) ==
  IF Len(parts) = 0 THEN <<>>
  ELSE IF Len(parts) = 1 THEN parts[1]
  ELSE parts[1] \o sep \o Join(Tail(parts), sep)

RECURSIVE Split(_, _)
Split(s, sep) ==
  IF \A i \in 1..Len(s) : s[i] # sep THEN <<s>>
  ELSE LET i == CHOOSE k \in 1..Len(s) : s[k] = sep /\ \A j \in 1..(k-1) : s[j] # sep
       IN  <<SubSeq(s, 1, i-1)>> \o Split(SubSeq(s, i+1, Len(s)), sep)

RECURSIVE Replace(_, _, _)
Replace(s, old, new) ==
  IF s = <<>> THEN <<>>
  ELSE (IF Head(s) = old THEN new ELSE <<Head(s)>>) \o Replace(Tail(s), old, new)

\* The backquote character of MySQL identifiers.  SANY does not accept that
\* character inside a string, so the model writes it as the lexeme BT.
BT == "'"

Quote(part) == <<BT>> \o Replace(part, BT, <<BT, BT>>) \o <<BT>>

EscapeId_NoDoubling(id, ignore_dot) ==
  IF Len(ignore_dot) > 0 /\ ignore_dot[1]
  THEN <<BT>> \o id \o <<BT>>
  ELSE LET parts == Split(id, ".")
       IN  Join([i \in 1..Len(parts) |-> <<BT>> \o parts[i] \o <<BT>>], <<".">>)

EscapeId(id, ignore_dot) ==
  IF Len(ignore_dot) > 0 /\ ignore_dot[1]
  THEN Quote(id)
  ELSE LET parts == Split(id, ".")
       IN  Join([i \in 1..Len(parts) |-> Quote(parts[i])], <<".">>)

----------------------------------------------------------------------------
(* integers and decimal text *)

Digits == <<"0", "1", "2", "3", "4", "5", "6", "7", "8", "9">>

IsDigit(c) == \E d \in 1..10 : Digits[d] = c

DigitVal(c) == (CHOOSE d \in 1..10 : Digits[d] = c) - 1

RECURSIVE FormatNat(_)
FormatNat(n) ==
  IF n < 10 THEN <<Digits[n + 1]>> ELSE FormatNat(n \div 10) \o <<Digits[(n % 10) + 1]>>

FormatInt(n) == IF n < 0 THEN <<"-">> \o FormatNat(-n) ELSE FormatNat(n)


\* A magnitude is a sequence of 16-bit limbs, least significant first, with
\* no leading zero limb (TLC's own integers are 32 bits wide, and the
\* converters work on 32- and 64-bit values).
LimbBase == 65536

LimbBits == 16

RECURSIVE MulAdd(_, _, _)
MulAdd(mag, factor, carry) ==
  IF mag = <<>> THEN (IF carry = 0 THEN <<>> ELSE <<carry>>)
  ELSE LET v == Head(mag) * factor + carry
       IN  <<v % LimbBase>> \o MulAdd(Tail(mag), factor, v \div LimbBase)

RECURSIVE ParseDigits(_, _)
ParseDigits(s, mag) ==
  IF s = <<>> THEN mag ELSE ParseDigits(Tail(s), MulAdd(mag, 10, DigitVal(Head(s))))

\* Whether a magnitude with the given sign is a value of a signed integer
\* of `bits` bits.
FitsInt(mag, neg, bits) ==
  LET n == bits \div LimbBits IN
  \/ Len(mag) < n
  \/ /\ Len(mag) = n
     /\ \/ mag[n] < LimbBase \div 2
        \/ neg /\ mag[n] = LimbBase \div 2 /\ \A i \in 1..(n-1) : mag[i] = 0

\* strconv.Atoi on a platform whose int has `bits` bits.
Atoi(s, bits) ==
  LET signed == Len(s) > 0 /\ s[1] \in {"+", "-"}
      neg    == signed /\ s[1] = "-"
      body   == IF signed THEN Tail(s) ELSE s
  IN  IF body = <<>> \/ \E i \in 1..Len(body) : ~IsDigit(body[i])
      THEN [ok |-> FALSE, err |-> "syntax", neg |-> FALSE, mag |-> <<>>]
      ELSE LET mag == ParseDigits(body, <<>>) IN
           IF FitsInt(mag, neg, bits)
           THEN [ok |-> TRUE, err |-> "", neg |-> neg, mag |-> mag]
           ELSE [ok |-> FALSE, err |-> "range", neg |-> FALSE, mag |-> <<>>]

Limb(mag, i) == IF i <= Len(mag) THEN mag[i] ELSE 0

\* The conversion uint32(i): the low 32 bits of i in two's complement.
Uint32Of(neg, mag) ==
  LET lo == Limb(mag, 1)  hi == Limb(mag, 2) IN
  IF ~neg THEN [hi |-> hi, lo |-> lo]
  ELSE IF lo = 0 /\ hi = 0 THEN [hi |-> 0, lo |-> 0]
  ELSE IF lo = 0 THEN [hi |-> LimbBase - hi, lo |-> 0]
  ELSE [hi |-> LimbBase - 1 - hi, lo |-> LimbBase - lo]

ParseUint32(value, bits) ==
  LET r == Atoi(value, bits) IN
  IF ~r.ok THEN [kind |-> "panic", val |-> [hi |-> 0, lo |-> 0], err |-> r.err]
  ELSE [kind |-> "value", val |-> Uint32Of(r.neg, r.mag), err |-> ""]

----------------------------------------------------------------------------
(* interface{} values and Go maps *)

Nil == [kind |-> "nil", val |-> <<>>]

Str(s) == [kind |-> "string", val |-> s]

SliceV(elems) == [kind |-> "slice", val |-> elems]

MapV(f) == [kind |-> "map", val |-> f]

\* A map[string]interface{}: the nil map, or a map with entries m.
NilMap == [nil |-> TRUE, m |-> <<>>]

MkMap(f) == [nil |-> FALSE, m |-> f]

\* Reading a nil map yields no entry.
Has(mp, k) == ~mp.nil /\ k \in DOMAIN mp.m

\* The orders in which a range statement may visit the keys of a map: the
\* language leaves the order unspecified and the runtime varies it.
RangeOrders(mp) ==
  LET K == DOMAIN mp.m  n == Cardinality(K)
  IN  {o \in [1..n -> K] : \A i, j \in 1..n : o[i] = o[j] => i = j}

\* encoding/json writes the keys of a map in sorted order.
SortedKeys == << <<"p">>, <<"q">> >>

RECURSIVE MarshalEntries(_, _)
MarshalEntries(f, keys) ==
  IF keys = <<>> THEN <<>>
  ELSE LET k    == Head(keys)
           rest == MarshalEntries(f, Tail(keys))
           this == <<"\"">> \o k \o <<"\"", ":", "\"">> \o f[k].val \o <<"\"">>
       IN  IF k \notin DOMAIN f THEN rest
           ELSE IF rest = <<>> THEN this ELSE this \o <<",">> \o rest

Marshal(f) == <<"{">> \o MarshalEntries(f, SortedKeys) \o <<"}">>

----------------------------------------------------------------------------
(* the clause builders *)

RECURSIVE where_loop(_, _, _)
where_loop(m, order, acc) ==
  IF order = <<>> THEN acc
  ELSE
    LET key   == EscapeId(Head(order), <<>>)
        value == m[Head(order)]
        next  ==
          IF value.kind = "nil"
          THEN [conditions |-> Append(acc.conditions, key \o <<" IS NULL">>),
                values     |-> acc.values]
          ELSE IF value.kind = "slice"
          THEN [conditions |->
                  Append(acc.conditions,
                         key \o <<"IN(">>
                             \o Join([i \in 1..Len(value.val) |-> <<"?">>], <<", ">>)
                             \o <<")">>),
                values     |-> acc.values \o value.val]
          ELSE [conditions |-> Append(acc.conditions, key \o <<" = ", "?">>),
                values     |->
                  Append(acc.values,
                         IF value.kind = "map" THEN Str(Marshal(value.val)) ELSE value)]
    IN  where_loop(m, Tail(order), next)

prepare_where(where, order) ==
  IF where.nil THEN [query |-> <<>>, values |-> <<>>]
  ELSE LET r == where_loop(where.m, order, [conditions |-> <<>>, values |-> <<>>])
       IN  [query  |-> <<" WHERE ">> \o Join(r.conditions, <<" AND ">>),
            values |-> r.values]

RECURSIVE set_loop(_, _, _)
set_loop(m, order, acc) ==
  IF order = <<>> THEN acc
  ELSE
    LET key   == Head(order)
        value == m[key]
        next  ==
          IF value.kind = "nil"
          THEN [columns |-> Append(acc.columns, EscapeId(key, <<>>) \o <<" = NULL">>),
                values  |-> acc.values]
          ELSE [columns |-> Append(acc.columns, EscapeId(key, <<>>) \o <<" = ", "?">>),
                values  |-> Append(acc.values, value)]
    IN  set_loop(m, Tail(order), next)

prepare_set(data, order) ==
  LET r == set_loop(data.m, order, [columns |-> <<>>, values |-> <<>>])
  IN  [set |-> Join(r.columns, <<", ">>), values |-> r.values]

order_query(opts) ==
  IF Has(opts, "order") THEN <<" ORDER BY ">> \o opts.m["order"] ELSE <<>>

limit_query(opts, has_offset) ==
  IF Has(opts, "limit")
  THEN IF has_offset
       THEN <<" LIMIT ">>
              \o FormatInt(IF Has(opts, "offset") THEN opts.m["offset"] ELSE 0)
              \o <<", ">> \o FormatInt(opts.m["limit"])
       ELSE <<" LIMIT ">> \o FormatInt(opts.m["limit"])
  ELSE <<>>


\* prepare_columns writes the escaped names back into the slice it was given:
\* opts in the result is the options map as the caller sees it afterwards.
prepare_columns(opts) ==
  IF Has(opts, "column")
  THEN [cols |-> EscapeId(opts.m["column"], <<>>), opts |-> opts]
  ELSE IF ~Has(opts, "columns")
  THEN [cols |-> <<"*">>, opts |-> opts]
  ELSE LET fields == [i \in 1..Len(opts.m["columns"]) |->
                        EscapeId(opts.m["columns"][i], <<>>)]
       IN  [cols |-> Join(fields, <<", ">>),
            opts |-> MkMap([opts.m EXCEPT !["columns"] = fields])]

Put(f, k, v) == [x \in (DOMAIN f) \cup {k} |-> IF x = k THEN v ELSE f[x]]

\* set_limit_option on the variadic options of a First variant.  args are the
\* options passed on; panic is the assignment to an entry of a nil map.
set_limit_option(opts) ==
  IF Len(opts) = 0
  THEN [panic |-> FALSE, args |-> <<MkMap([k \in {"limit"} |-> 1])>>]
  ELSE IF Len(opts) = 1
  THEN IF opts[1].nil
       THEN [panic |-> TRUE, args |-> opts]
       ELSE [panic |-> FALSE, args |-> <<MkMap(Put(opts[1].m, "limit", 1))>>]
  ELSE [panic |-> FALSE, args |-> opts]

\* var options map[string]interface{}; if len(args) > 0 { options = args[0] }
FirstArg(args) == IF Len(args) > 0 THEN args[1] ELSE NilMap

----------------------------------------------------------------------------
(* the statements *)

Select_query(table, where, args, ordW) ==
  LET opts == FirstArg(args)
      c    == prepare_columns(opts)
      w    == prepare_where(where, ordW)
  IN  [query  |-> <<"SELECT ">> \o c.cols \o <<" FROM ">> \o EscapeId(table, <<>>)
                    \o w.query \o order_query(opts) \o limit_query(opts, TRUE)
                    \o <<";">>,
       values |-> w.values,
       opts   |-> c.opts]

RECURSIVE insert_loop(_, _, _)
insert_loop(m, order, acc) ==
  IF order = <<>> THEN acc
  ELSE insert_loop(m, Tail(order),
         [values       |-> Append(acc.values, m[Head(order)]),
          columns      |-> Append(acc.columns, EscapeId(Head(order), <<>>)),
          placeholders |-> Append(acc.placeholders, <<"?">>)])

Insert_query(table, data, ordD) ==
  LET r == insert_loop(data.m, ordD,
                       [values |-> <<>>, columns |-> <<>>, placeholders |-> <<>>])
  IN  [query  |-> <<"INSERT INTO ">> \o EscapeId(table, <<>>) \o <<"(">>
                    \o Join(r.columns, <<", ">>) \o <<") VALUES(">>
                    \o Join(r.placeholders, <<", ">>) \o <<")">>,
       values |-> r.values]

InsertRow_query(table, data, ordD) ==
  LET s == prepare_set(data, ordD)
  IN  [query  |-> <<"INSERT INTO ">> \o table \o <<" SET ">> \o s.set \o <<";">>,
       values |-> s.values]

Update_query_WhereFirst(table, data, where, args, ordD, ordW) ==
  LET opts == FirstArg(args)
      s    == prepare_set(data, ordD)
      w    == prepare_where(where, ordW)
  IN  [query  |-> <<"UPDATE ">> \o EscapeId(table, <<>>) \o <<" SET ">> \o s.set
                    \o w.query \o order_query(opts) \o limit_query(opts, FALSE)
                    \o <<";">>,
       values |-> w.values \o s.values]

Update_query(table, data, where, args, ordD, ordW) ==
  LET opts == FirstArg(args)
      s    == prepare_set(data, ordD)
      w    == prepare_where(where, ordW)
  IN  [query  |-> <<"UPDATE ">> \o EscapeId(table, <<>>) \o <<" SET ">> \o s.set
                    \o w.query \o order_query(opts) \o limit_query(opts, FALSE)
                    \o <<";">>,
       values |-> s.values \o w.values]

Delete_query(table, where, args, ordW) ==
  LET opts == FirstArg(args)
      w    == prepare_where(where, ordW)
  IN  [query  |-> <<"DELETE FROM ">> \o table \o w.query
                    \o (IF Has(opts, "order")
                        THEN <<" ORDER BY ">> \o opts.m["order"] ELSE <<>>)
                    \o (IF Has(opts, "limit")
                        THEN <<" LIMIT ">> \o FormatInt(opts.m["limit"]) ELSE <<>>)
                    \o <<";">>,
       values |-> w.values]

----------------------------------------------------------------------------
(* inputs *)

RECURSIVE SeqsUpTo(_, _)
SeqsUpTo(S, n) ==
  IF n = 0 THEN {<<>>}
  ELSE LET shorter == SeqsUpTo(S, n - 1)
       IN  shorter \cup {Append(q, x) : q \in shorter, x \in S}

IdChars == {"a", ".", BT}

Ids == SeqsUpTo(IdChars, MaxIdLen)

Flags == {<<>>, <<TRUE>>, <<FALSE>>}

KeyA == <<"a">>

KeyB == <<"t", ".", "b">>

Keys == {KeyA, KeyB}

Scalars == {Str(<<"x">>), Str(<<"y">>)}

NestedMaps == {MapV([k \in {<<"p">>} |-> Str(<<"x">>)]),
               MapV([k \in {<<"p">>, <<"q">>} |->
                       IF k = <<"p">> THEN Str(<<"y">>) ELSE Str(<<"x">>)])}

Values == {Nil} \cup Scalars \cup {SliceV(e) : e \in SeqsUpTo(Scalars, MaxSliceLen)}
            \cup NestedMaps

\* The condition maps and data maps: nil, or any map over a subset of Keys.
Maps == {NilMap} \cup UNION {{MkMap(f) : f \in [K -> Values]} : K \in SUBSET Keys}

\* A few maps, for the calls that take two of them.
FewMaps ==
  {NilMap, MkMap(<<>>),
   MkMap([k \in {KeyA} |-> Str(<<"x">>)]),
   MkMap([k \in Keys |-> IF k = KeyA THEN Nil
                         ELSE SliceV(<<Str(<<"x">>), Str(<<"y">>)>>)]),
   MkMap([k \in {KeyB} |-> MapV([j \in {<<"p">>} |-> Str(<<"x">>)])])}

Table == <<"t">>

OrderText == <<"a", " DESC">>

FewArgs ==
  {<<>>, <<MkMap([k \in {"order", "limit"} |-> IF k = "order" THEN OrderText ELSE 5])>>}

ParseChars == {"-", "+", "0", "1", "9", "x"}

EdgeTexts ==
  {<<"4","2","9","4","9","6","7","2","9","5">>,
   <<"4","2","9","4","9","6","7","2","9","6">>,
   <<"0","4","2","9","4","9","6","7","2","9","5">>,
   <<"2","1","4","7","4","8","3","6","4","7">>,
   <<"2","1","4","7","4","8","3","6","4","8">>,
   <<"-","2","1","4","7","4","8","3","6","4","8">>,
   <<"-","4","2","9","4","9","6","7","2","9","6">>,
   <<"6","5","5","3","6">>,
   <<"9","2","2","3","3","7","2","0","3","6","8","5","4","7","7","5","8","0","7">>,
   <<"9","2","2","3","3","7","2","0","3","6","8","5","4","7","7","5","8","0","8">>,
   <<"-","9","2","2","3","3","7","2","0","3","6","8","5","4","7","7","5","8","0","8">>}

ParseTexts == SeqsUpTo(ParseChars, MaxTextLen) \cup EdgeTexts

\* The width of Go's int on the platform the program is built for.
IntSizes == {32, 64}

----------------------------------------------------------------------------
(* The builders and converters applied to inputs: PureSpec *)

NoCall == [op |-> "none", table |-> <<>>, where |-> NilMap, data |-> NilMap]

NoOutcome == [kind |-> "none", val |-> <<>>]

NoTask == [fn |-> "none", in |-> <<>>]

NoSent == [query |-> <<>>, values |-> <<>>, reply |-> "none"]

Tasks ==
  {[fn |-> "EscapeId", in |-> [id |-> i, ignore_dot |-> f]] : i \in Ids, f \in Flags}
  \cup {[fn |-> "prepare_where", in |-> [where |-> w]] : w \in Maps}
  \cup {[fn |-> "prepare_set", in |-> [data |-> d]] : d \in Maps}
  \cup {[fn |-> "Update", in |-> [data |-> d, where |-> w, args |-> a]] :
          d \in Maps, w \in FewMaps, a \in FewArgs}
  \cup {[fn |-> "ParseUint32", in |-> [value |-> t, bits |-> b]] :
          t \in ParseTexts, b \in IntSizes}

Idle ==
  /\ options = <<>>
  /\ call = NoCall
  /\ sent = NoSent
  /\ pc = "idle"
  /\ cursor = "none"
  /\ deferred = <<>>
  /\ rowsLeft = 0
  /\ results = <<>>
  /\ outcome = NoOutcome
  /\ ncalls = 0

PureInit == task \in Tasks /\ out = <<>> /\ Idle

callVars == <<options, call, sent, pc, cursor, deferred, rowsLeft, results,
              outcome, ncalls>>

ApplyEscapeId ==
  /\ task.fn = "EscapeId"
  /\ Len(out) < MaxApply
  /\ out' = Append(out, EscapeId(IF out = <<>> THEN task.in.id ELSE out[Len(out)],
                                 task.in.ignore_dot))
  /\ UNCHANGED <<task, callVars>>

ApplyPrepareWhere ==
  /\ task.fn = "prepare_where"
  /\ out = <<>>
  /\ \E o \in RangeOrders(task.in.where) :
       out' = <<prepare_where(task.in.where, o)>>
  /\ UNCHANGED <<task, callVars>>

ApplyPrepareSet ==
  /\ task.fn = "prepare_set"
  /\ Len(out) < MaxApply
  /\ \E o \in RangeOrders(task.in.data) :
       out' = Append(out, prepare_set(task.in.data, o))
  /\ UNCHANGED <<task, callVars>>

ApplyUpdate ==
  /\ task.fn = "Update"
  /\ out = <<>>
  /\ \E od \in RangeOrders(task.in.data), ow \in RangeOrders(task.in.where) :
       out' = <<Update_query(Table, task.in.data, task.in.where, task.in.args, od, ow)>>
  /\ UNCHANGED <<task, callVars>>

ApplyParseUint32 ==
  /\ task.fn = "ParseUint32"
  /\ out = <<>>
  /\ out' = <<ParseUint32(task.in.value, task.in.bits)>>
  /\ UNCHANGED <<task, callVars>>

PureNext ==
  \/ ApplyEscapeId
  \/ ApplyPrepareWhere
  \/ ApplyPrepareSet
  \/ ApplyUpdate
  \/ ApplyParseUint32

PureSpec == PureInit /\ [][PureNext]_vars


----------------------------------------------------------------------------
(* The operations called on a database: Spec *)

OptionsMap(column, columns, order, limit, offset) ==
  MkMap([k \in (IF column THEN {"column"} ELSE {})
                 \cup (IF columns THEN {"columns"} ELSE {})
                 \cup (IF order THEN {"order"} ELSE {})
                 \cup (IF limit > 0 THEN {"limit"} ELSE {})
                 \cup (IF offset > 0 THEN {"offset"} ELSE {}) |->
           CASE k = "column"  -> KeyA
             [] k = "columns" -> <<KeyA, KeyB>>
             [] k = "order"   -> OrderText
             [] k = "limit"   -> limit
             [] k = "offset"  -> offset])

\* The options maps a caller passes first: none of the entries, each kind of
\* entry, and entries together.  A limit or offset of 0 stands for no entry.
OptionsMaps ==
  {NilMap,
   OptionsMap(FALSE, FALSE, FALSE, 0, 0),
   OptionsMap(FALSE, FALSE, FALSE, 100, 0),
   OptionsMap(FALSE, FALSE, TRUE, 100, 10),
   OptionsMap(FALSE, FALSE, TRUE, 0, 10),
   OptionsMap(FALSE, TRUE, FALSE, 0, 0),
   OptionsMap(FALSE, TRUE, FALSE, 1, 0),
   OptionsMap(TRUE, TRUE, FALSE, 0, 0)}

\* Further maps a caller may pass after the first.
MoreMaps == {OptionsMap(FALSE, FALSE, FALSE, 1, 0)}

OptionsArgs ==
  {<<>>} \cup {<<m>> : m \in OptionsMaps}
         \cup {<<m, e>> : m \in OptionsMaps, e \in MoreMaps}

CallWheres ==
  {NilMap,
   MkMap([k \in {KeyA} |-> Str(<<"x">>)]),
   MkMap([k \in Keys |-> IF k = KeyA THEN Nil
                         ELSE SliceV(<<Str(<<"x">>), Str(<<"y">>)>>)])}

CallData == {MkMap([k \in Keys |-> IF k = KeyA THEN Nil ELSE Str(<<"y">>)])}

\* What the driver answers: rows (a cursor over that many rows) or a
\* summary, a MySQL error, or another error.
Replies ==
  {[kind |-> "ok", rows |-> n] : n \in 0..MaxRows}
  \cup {[kind |-> "MySQLError", rows |-> 0], [kind |-> "error", rows |-> 0]}

ExecReplies == {r \in Replies : r.rows = 0}

\* The database delivers no more rows than the LIMIT of the statement.
WithinLimit(reply, args) ==
  Has(FirstArg(args), "limit") => reply.rows <= FirstArg(args).m["limit"]

Panic(err, wrapped, query, values) ==
  [kind |-> "panic",
   val  |-> [err |-> err, wrapped |-> wrapped, Query |-> query, Values |-> values]]

\* handle_error receives its variadic parameter values as it was passed.
handle_error(err, query, values) ==
  IF err = "MySQLError" THEN Panic(err, TRUE, query, values)
  ELSE Panic(err, FALSE, <<>>, <<>>)

\* Exec and ExecQuery pass their []interface{} to handle_error as one
\* argument (handle_error(err, query, values), not values...): the variadic
\* parameter of handle_error is a slice of one element, that slice.
ExecQuery(query, values, reply) ==
  IF reply.kind # "ok" THEN handle_error(reply.kind, query, <<SliceV(values)>>)
  ELSE [kind |-> "cursor", val |-> <<>>]

Exec(query, values, reply) ==
  IF reply.kind # "ok" THEN handle_error(reply.kind, query, <<SliceV(values)>>)
  ELSE [kind |-> "result", val |-> <<>>]

\* The row the cursor delivers n-th, as Select stores it.
Row(n) == [c \in {"id"} |-> FormatInt(n)]

First_result_AnyRow(rows) ==
  IF Len(rows) >= 1 THEN [kind |-> "row", val |-> rows[1]]
  ELSE [kind |-> "nil", val |-> <<>>]

First_result(rows) ==
  IF Len(rows) = 1 THEN [kind |-> "row", val |-> rows[1]]
  ELSE [kind |-> "nil", val |-> <<>>]

CursorAfterExit_ReturnOnly(dfr, cur, pending) ==
  IF pending.kind = "rows" THEN "closed" ELSE cur

\* The deferred calls of the frame run when Select returns and when it panics.
CursorAfterExit(dfr, cur, pending) ==
  IF \E i \in 1..Len(dfr) : dfr[i] = "rows.Close" THEN "closed" ELSE cur

\* The options as the caller sees them after a call that passed args on:
\* the maps are shared, the options created for a call without any are not.
CallerOptions(args) == IF Len(options) = 0 THEN options ELSE args

Init ==
  /\ task = NoTask
  /\ out = <<>>
  /\ options \in OptionsArgs
  /\ call = NoCall
  /\ sent = NoSent
  /\ pc = "idle"
  /\ cursor = "none"
  /\ deferred = <<>>
  /\ rowsLeft = 0
  /\ results = <<>>
  /\ outcome = NoOutcome
  /\ ncalls = 0

Begin(op, table, data, where) ==
  /\ pc = "idle"
  /\ ncalls < MaxCalls
  /\ ncalls' = ncalls + 1
  /\ call' = [op |-> op, table |-> table, where |-> where, data |-> data]
  /\ results' = <<>>
  /\ UNCHANGED <<task, out>>

\* set_limit_option panicked: nothing was built and nothing sent.
NilMapPanic ==
  /\ outcome' = Panic("assignment to entry in nil map", FALSE, <<>>, <<>>)
  /\ sent' = NoSent
  /\ pc' = "idle"
  /\ cursor' = "none"
  /\ deferred' = <<>>
  /\ rowsLeft' = 0
  /\ UNCHANGED options

\* Select from ExecQuery on: the statement goes to the driver, which fails
\* (ExecQuery panics through Select) or hands over a cursor, whose Close
\* Select defers.
RunSelect(table, where, args) ==
  \E ow \in RangeOrders(where), reply \in Replies :
    LET q == Select_query(table, where, args, ow) IN
    /\ WithinLimit(reply, args)
    /\ options' = CallerOptions(IF Len(args) > 0 THEN [args EXCEPT ![1] = q.opts]
                                ELSE args)
    /\ sent' = [query |-> q.query, values |-> q.values, reply |-> reply.kind]
    /\ IF reply.kind # "ok"
       THEN /\ outcome' = ExecQuery(q.query, q.values, reply)
            /\ pc' = "idle"
            /\ cursor' = "none"
            /\ deferred' = <<>>
            /\ rowsLeft' = 0
       ELSE /\ outcome' = NoOutcome
            /\ pc' = "columns"
            /\ cursor' = "open"
            /\ deferred' = <<"rows.Close">>
            /\ rowsLeft' = reply.rows

Select(table, where) ==
  /\ Begin("Select", table, NilMap, where)
  /\ RunSelect(table, where, options)

First(table, where) ==
  /\ Begin("First", table, NilMap, where)
  /\ LET lim == set_limit_option(options) IN
     IF lim.panic THEN NilMapPanic ELSE RunSelect(table, where, lim.args)

\* rows.Columns()
SelectColumns ==
  /\ pc = "columns"
  /\ \/ pc' = "next" /\ UNCHANGED outcome
     \/ pc' = "exit" /\ outcome' = Panic("rows.Columns", FALSE, <<>>, <<>>)
  /\ UNCHANGED <<task, out, options, call, sent, cursor, deferred, rowsLeft,
                 results, ncalls>>

\* for rows.Next() { rows.Scan(...); results = append(results, result) }
SelectNext ==
  /\ pc = "next"
  /\ \/ /\ rowsLeft > 0
        /\ results' = Append(results, Row(Len(results) + 1))
        /\ rowsLeft' = rowsLeft - 1
        /\ UNCHANGED <<pc, outcome>>
     \/ /\ rowsLeft > 0
        /\ pc' = "exit"
        /\ outcome' = Panic("rows.Scan", FALSE, <<>>, <<>>)
        /\ UNCHANGED <<results, rowsLeft>>
     \/ /\ rowsLeft = 0
        /\ pc' = "exit"
        /\ outcome' = [kind |-> "rows", val |-> results]
        /\ UNCHANGED <<results, rowsLeft>>
  /\ UNCHANGED <<task, out, options, call, sent, cursor, deferred, ncalls>>

\* Select leaves, by return or by panic; First then looks at what it got.
SelectExit ==
  /\ pc = "exit"
  /\ cursor' = CursorAfterExit(deferred, cursor, outcome)
  /\ deferred' = <<>>
  /\ pc' = "idle"
  /\ outcome' = IF outcome.kind = "rows" /\ call.op = "First"
                THEN First_result(outcome.val) ELSE outcome
  /\ UNCHANGED <<task, out, options, call, sent, rowsLeft, results, ncalls>>

\* A statement without a cursor: built, handed to Exec, answered.
RunExec(q, args) ==
  \E reply \in ExecReplies :
    /\ sent' = [query |-> q.query, values |-> q.values, reply |-> reply.kind]
    /\ outcome' = Exec(q.query, q.values, reply)
    /\ options' = CallerOptions(args)
    /\ pc' = "idle"
    /\ cursor' = "none"
    /\ deferred' = <<>>
    /\ rowsLeft' = 0

Insert(table, data) ==
  /\ Begin("Insert", table, data, NilMap)
  /\ \E od \in RangeOrders(data) : RunExec(Insert_query(table, data, od), options)

InsertRow(table, data) ==
  /\ Begin("InsertRow", table, data, NilMap)
  /\ \E od \in RangeOrders(data) : RunExec(InsertRow_query(table, data, od), options)

Update(table, data, where) ==
  /\ Begin("Update", table, data, where)
  /\ \E od \in RangeOrders(data), ow \in RangeOrders(where) :
       RunExec(Update_query(table, data, where, options, od, ow), options)

UpdateFirst(table, data, where) ==
  /\ Begin("UpdateFirst", table, data, where)
  /\ LET lim == set_limit_option(options) IN
     IF lim.panic THEN NilMapPanic
     ELSE \E od \in RangeOrders(data), ow \in RangeOrders(where) :
            RunExec(Update_query(table, data, where, lim.args, od, ow), lim.args)

Delete(table, where) ==
  /\ Begin("Delete", table, NilMap, where)
  /\ \E ow \in RangeOrders(where) :
       RunExec(Delete_query(table, where, options, ow), options)

DeleteFirst(table, where) ==
  /\ Begin("DeleteFirst", table, NilMap, where)
  /\ LET lim == set_limit_option(options) IN
     IF lim.panic THEN NilMapPanic
     ELSE \E ow \in RangeOrders(where) :
            RunExec(Delete_query(table, where, lim.args, ow), lim.args)

Next ==
  \/ \E w \in CallWheres : Select(Table, w)
  \/ \E w \in CallWheres : First(Table, w)
  \/ SelectColumns
  \/ SelectNext
  \/ SelectExit
  \/ \E d \in CallData : Insert(Table, d)
  \/ \E d \in CallData : InsertRow(Table, d)
  \/ \E d \in CallData, w \in CallWheres : Update(Table, d, w)
  \/ \E d \in CallData, w \in CallWheres : UpdateFirst(Table, d, w)
  \/ \E w \in CallWheres : Delete(Table, w)
  \/ \E w \in CallWheres : DeleteFirst(Table, w)

Spec == Init /\ [][Next]_vars

\* A call in progress goes on: the caller's thread runs Select to its end.
LiveSpec == Spec /\ WF_vars(SelectColumns) /\ WF_vars(SelectNext) /\ WF_vars(SelectExit)

----------------------------------------------------------------------------
(* Reading generated text back: what the properties below are stated with *)

CountTok(text, tok) == Cardinality({i \in 1..Len(text) : text[i] = tok})

StartsWith(s, prefix) ==
  Len(prefix) <= Len(s) /\ SubSeq(s, 1, Len(prefix)) = prefix

\* The lexemes after the first `start` and before the next lexeme of `stops`.
Section(text, start, stops) ==
  IF CountTok(text, start) = 0 THEN <<>>
  ELSE LET a == CHOOSE i \in 1..Len(text) :
                  text[i] = start /\ \A j \in 1..(i-1) : text[j] # start
           E == {i \in (a+1)..Len(text) : text[i] \in stops}
           b == IF E = {} THEN Len(text) + 1
                ELSE CHOOSE i \in E : \A j \in E : i <= j
       IN  SubSeq(text, a + 1, b - 1)

Fragments(part, sep) == IF part = <<>> THEN <<>> ELSE Split(part, sep)

ClauseEnds == {" ORDER BY ", " LIMIT ", ";"}

WhereFrags(text) == Fragments(Section(text, " WHERE ", ClauseEnds), " AND ")

SetFrags(text) ==
  Fragments(Section(<<" SET ">> \o text, " SET ", ClauseEnds \cup {" WHERE "}), ", ")

AfterColumn == {" IS NULL", "IN(", " = ", " = NULL"}

IsFragmentOf(frag, k) ==
  LET e == EscapeId(k, <<>>)
  IN  StartsWith(frag, e) /\ Len(frag) > Len(e) /\ frag[Len(e) + 1] \in AfterColumn

RECURSIVE Offset(_, _)
Offset(frags, i) ==
  IF i <= 1 THEN 0 ELSE Offset(frags, i - 1) + CountTok(frags[i - 1], "?")

\* The values an entry is to bind, by the builders' per-entry policy.
WhereBinds(v) ==
  IF v.kind = "nil" THEN <<>>
  ELSE IF v.kind = "slice" THEN v.val
  ELSE IF v.kind = "map" THEN <<Str(Marshal(v.val))>>
  ELSE <<v>>

SetBinds(v) == IF v.kind = "nil" THEN <<>> ELSE <<v>>

\* Every fragment is the fragment of one key of m, every key has one, and
\* the placeholders of the i-th fragment are bound, in order, to the values
\* its entry is to bind: the k-th placeholder has the k-th value.
Aligned(frags, m, values, Binds(_)) ==
  /\ Len(frags) = Cardinality(DOMAIN m)
  /\ \A k \in DOMAIN m : \E i \in 1..Len(frags) : IsFragmentOf(frags[i], k)
  /\ Offset(frags, Len(frags) + 1) = Len(values)
  /\ \A i \in 1..Len(frags) : \A k \in DOMAIN m :
       IsFragmentOf(frags[i], k) =>
         /\ CountTok(frags[i], "?") = Len(Binds(m[k]))
         /\ \A j \in 1..Len(Binds(m[k])) :
              /\ Offset(frags, i) + j <= Len(values)
              /\ values[Offset(frags, i) + j] = Binds(m[k])[j]

Applied(fn) == task.fn = fn /\ out # <<>>

----------------------------------------------------------------------------
(* C2 *)

\* C2: in the WHERE clause of prepare_where and in the whole Update
\* statement the number of "?" placeholders equals the number of bound
\* values and the k-th placeholder is bound to the k-th value; Update binds
\* the SET values first and the WHERE values after them.
C2_PlaceholdersMatchValues ==
  /\ Applied("prepare_where") =>
       /\ CountTok(out[1].query, "?") = Len(out[1].values)
       /\ Aligned(WhereFrags(out[1].query), task.in.where.m, out[1].values, WhereBinds)
  /\ Applied("Update") =>
       LET q  == out[1].query
           v  == out[1].values
           ns == CountTok(Section(q, " SET ", ClauseEnds \cup {" WHERE "}), "?")
       IN  /\ CountTok(q, "?") = Len(v)
           /\ ns <= Len(v)
           /\ Aligned(SetFrags(Section(q, " SET ", ClauseEnds \cup {" WHERE "})),
                      task.in.data.m, SubSeq(v, 1, ns), SetBinds)
           /\ Aligned(WhereFrags(q), task.in.where.m, SubSeq(v, ns + 1, Len(v)),
                      WhereBinds)

C2_Witness ==
  /\ Applied("Update")
  /\ CountTok(Section(out[1].query, " SET ", {" WHERE "}), "?") = 2
  /\ CountTok(Section(out[1].query, " WHERE ", ClauseEnds), "?") = 2
  /\ CountTok(out[1].query, " IS NULL") = 1
  /\ \E k \in DOMAIN task.in.data.m : task.in.data.m[k].kind = "map"

----------------------------------------------------------------------------
(* C3 *)

\* C3: prepare_where returns the empty string for a nil map and for an empty
\* map, and writes " WHERE " only when it emitted at least one condition.
C3_NoConditionNoWhere ==
  Applied("prepare_where") =>
    /\ (task.in.where.nil \/ DOMAIN task.in.where.m = {}) => out[1].query = <<>>
    /\ CountTok(out[1].query, " WHERE ") > 0 => WhereFrags(out[1].query) # <<>>

----------------------------------------------------------------------------
(* C4 *)

RECURSIVE Halve(_)
Halve(s) ==
  IF s = <<>> THEN [ok |-> TRUE, text |-> <<>>]
  ELSE IF Head(s) # BT
  THEN LET r == Halve(Tail(s)) IN [ok |-> r.ok, text |-> <<Head(s)>> \o r.text]
  ELSE IF Len(s) >= 2 /\ s[2] = BT
  THEN LET r == Halve(SubSeq(s, 3, Len(s))) IN [ok |-> r.ok, text |-> <<BT>> \o r.text]
  ELSE [ok |-> FALSE, text |-> <<>>]

Unquote(part) ==
  IF Len(part) >= 2 /\ part[1] = BT /\ part[Len(part)] = BT
  THEN Halve(SubSeq(part, 2, Len(part) - 1))
  ELSE [ok |-> FALSE, text |-> <<>>]

\* What a reader of a quoted identifier takes it to name.
Unescape(s, ignore_dot) ==
  IF Len(ignore_dot) > 0 /\ ignore_dot[1] THEN Unquote(s)
  ELSE LET parts == Split(s, ".")
       IN  [ok   |-> \A i \in 1..Len(parts) : Unquote(parts[i]).ok,
            text |-> Join([i \in 1..Len(parts) |-> Unquote(parts[i]).text], <<".">>)]

Escaped(i) == IF i = 0 THEN task.in.id ELSE out[i]

\* C4 as stated: escaping an escaped identifier changes nothing.
C4_EscapeIdIdempotent ==
  (task.fn = "EscapeId" /\ Len(out) >= 2) => out[2] = out[1]

\* C4, amended: escaping is not idempotent, every application quotes again
\* and so lengthens the text by at least the two quotes; it is reversible,
\* reading a quoted identifier back gives the text that was escaped.
C4_EscapeIdReversible ==
  task.fn = "EscapeId" =>
    \A i \in 1..Len(out) :
      /\ Len(out[i]) >= Len(Escaped(i - 1)) + 2
      /\ Unescape(out[i], task.in.ignore_dot).ok
      /\ Unescape(out[i], task.in.ignore_dot).text = Escaped(i - 1)

C4_Witness ==
  /\ task.fn = "EscapeId"
  /\ Len(out) >= 2
  /\ CountTok(task.in.id, BT) > 0
  /\ CountTok(task.in.id, ".") > 0
  /\ out[2] # out[1]

----------------------------------------------------------------------------
(* C5 *)

\* C5: two builds of the SET clause from one data map give the same text and
\* the same values, and in each build the i-th "= ?" is bound to the i-th
\* value while a null entry writes "= NULL" and binds nothing.
C5_SetBuildRepeatable ==
  task.fn = "prepare_set" =>
    /\ \A i \in 1..Len(out) :
         Aligned(SetFrags(out[i].set), task.in.data.m, out[i].values, SetBinds)
    /\ Len(out) >= 2 => out[1] = out[2]

----------------------------------------------------------------------------
(* C8 *)

IsDecimal(t) ==
  LET body == IF Len(t) > 0 /\ t[1] \in {"+", "-"} THEN Tail(t) ELSE t
  IN  body # <<>> /\ \A i \in 1..Len(body) : IsDigit(body[i])

RECURSIVE StripZeros(_)
StripZeros(d) ==
  IF Len(d) > 1 /\ Head(d) = "0" THEN StripZeros(Tail(d)) ELSE d

\* The digits of the number a decimal text denotes, without leading zeros.
Canonical(t) == StripZeros(IF t[1] \in {"+", "-"} THEN Tail(t) ELSE t)

RECURSIVE DigitsLeq(_, _)
DigitsLeq(a, b) ==
  IF a = <<>> THEN TRUE
  ELSE IF DigitVal(Head(a)) # DigitVal(Head(b))
  THEN DigitVal(Head(a)) < DigitVal(Head(b))
  ELSE DigitsLeq(Tail(a), Tail(b))

MaxUint32Text == <<"4","2","9","4","9","6","7","2","9","5">>

InUint32Range(t) ==
  LET d == Canonical(t) IN
  /\ t[1] = "-" => d = <<"0">>
  /\ \/ Len(d) < Len(MaxUint32Text)
     \/ Len(d) = Len(MaxUint32Text) /\ DigitsLeq(d, MaxUint32Text)

RECURSIVE FormatUint32(_)
FormatUint32(v) ==
  LET t == (v.hi % 10) * LimbBase + v.lo
      q == [hi |-> v.hi \div 10, lo |-> t \div 10]
  IN  IF q.hi = 0 /\ q.lo = 0 THEN <<Digits[(t % 10) + 1]>>
      ELSE FormatUint32(q) \o <<Digits[(t % 10) + 1]>>

\* C8: ParseUint32 panics on every decimal text whose value is outside
\* [0, 2^32 - 1] and returns exactly the value of every text inside it.
C8_ParseUint32RangeChecked ==
  (Applied("ParseUint32") /\ IsDecimal(task.in.value)) =>
    IF InUint32Range(task.in.value)
    THEN out[1].kind = "value" /\ FormatUint32(out[1].val) = Canonical(task.in.value)
    ELSE out[1].kind = "panic"


----------------------------------------------------------------------------
(* C1 *)

FirstOps == {"First", "UpdateFirst", "DeleteFirst"}

\* The row count after " LIMIT ": the whole fragment, or what follows the
\* offset and ", ".
LimitOf(query) ==
  LET parts == Split(Section(query, " LIMIT ", {";"}), ", ")
  IN  parts[Len(parts)]

\* C1: every statement First, UpdateFirst or DeleteFirst hands to the driver
\* limits to exactly one row, whatever options the caller passed.
C1_FirstVariantsLimitOne ==
  (call.op \in FirstOps /\ sent.reply # "none") => LimitOf(sent.query) = <<"1">>

----------------------------------------------------------------------------
(* C6 *)

\* C6: when the driver fails a statement with a MySQL error, the call
\* panics with an Error that holds the query text, the bound values as they
\* were passed to the driver, and the driver's error; it returns no result.
C6_ErrorCarriesQueryAndValues ==
  sent.reply = "MySQLError" =>
    /\ outcome.kind = "panic"
    /\ outcome.val.wrapped
    /\ outcome.val.err = "MySQLError"
    /\ outcome.val.Query = sent.query
    /\ Len(outcome.val.Values) = Len(sent.values)
    /\ \A i \in 1..Len(sent.values) : outcome.val.Values[i] = sent.values[i]

----------------------------------------------------------------------------
(* C7 *)

\* C7: Select closes every cursor it obtained, on each way out: no Select
\* has ended with its cursor open, and a cursor that is open gets closed.
C7_CursorAlwaysClosed ==
  /\ [](pc = "idle" => cursor # "open")
  /\ (cursor = "open") ~> (cursor = "closed")

C7_Witness ==
  /\ pc = "idle"
  /\ cursor = "closed"
  /\ outcome.kind = "panic"
  /\ outcome.val.err = "rows.Scan"
  /\ Len(results) = 1

----------------------------------------------------------------------------
(* C9 *)

SelectReturned ==
  /\ pc = "idle"
  /\ sent.reply = "ok"
  /\ outcome.kind # "panic"

\* C9: when its Select returns, First returns the row if there is exactly
\* one, and nil, not an error, if there are none or several.
C9_FirstOneRowOrNil ==
  (call.op = "First" /\ pc = "idle" /\ sent.reply = "ok"
     /\ ~(outcome.kind = "panic" /\ outcome.val.err \in {"rows.Columns", "rows.Scan"})) =>
    IF Len(results) = 1
    THEN outcome = [kind |-> "row", val |-> results[1]]
    ELSE outcome = [kind |-> "nil", val |-> <<>>]

C9_Witness ==
  /\ call.op = "First"
  /\ SelectReturned
  /\ Len(results) = 2
  /\ outcome.kind = "nil"

----------------------------------------------------------------------------
(* C10 *)

\* C10: a Select call leaves the options it was given as they were, and a
\* Select that follows another with the same table and condition map sends
\* the same text (stated for condition maps of at most one entry, whose
\* text does not depend on the order of a range).
C10_SelectKeepsOptions ==
  [][(ncalls' = ncalls + 1 /\ call'.op = "Select") =>
       /\ options' = options
       /\ (call.op = "Select" /\ call'.table = call.table /\ call'.where = call.where
             /\ Cardinality(DOMAIN call.where.m) <= 1
             /\ sent.reply # "none" /\ sent'.reply # "none")
            => sent'.query = sent.query]_vars

====
